---- MODULE Spec2Model ----
(***************************************************************************)
(* Model of local-db-viewer:                                               *)
(*   app/core/connectors/base_connector.py    (QueryResult, error kinds)   *)
(*   app/core/connectors/sqlite_connector.py  (SQLiteConnector)            *)
(*   app/core/connectors/connector_factory.py (ConnectorFactory)           *)
(*   app/db/query_history.py                  (QueryHistoryDB)             *)
(*   app/ui/main_window.py, app/ui/query_editor.py (MainWindow and its     *)
(*                                             QueryEditor)                *)
(*   app/ui/data_viewer.py                    (DataViewer)                 *)
(* Spec drives one SQLiteConnector against the sqlite3 engine and a small  *)
(* file system, FactorySpec the class-level registry of the factory,       *)
(* HistorySpec the history store used by one caller, SharedSpec the same   *)
(* store with a second caller reading statistics statement by statement,   *)
(* WindowSpec the main window and ViewerSpec the data viewer.  Text is     *)
(* modelled as a sequence of one-character strings so that strip/upper/    *)
(* lower/startswith, Path.suffix and the LIKE operator are computed, not   *)
(* assumed.                                                                *)
(***************************************************************************)
EXTENDS Integers, Sequences, FiniteSets, TLC

\* ------------------------------------------------------------------ bounds
\* ids the history store may assign are 1..MaxHistory
MaxHistory == 2
\* ids of the rows table t may hold are 1..MaxRows
MaxRows == 2
\* offsets and limits passed to get_table_data range over 0..MaxPage
MaxPage == 1
\* row counts of the tables shown in the DataViewer range over 0..MaxTotal
MaxTotal == 3

\* -------------------------------------------------------------------- text
Lowers == <<"a","b","c","d","e","f","g","h","i","j","k","l","m",
            "n","o","p","q","r","s","t","u","v","w","x","y","z">>
Uppers == <<"A","B","C","D","E","F","G","H","I","J","K","L","M",
            "N","O","P","Q","R","S","T","U","V","W","X","Y","Z">>
Digits == <<"0","1","2","3","4","5","6","7","8","9">>

IndexIn(c, s) == CHOOSE i \in 1..Len(s) : s[i] = c
Occurs(c, s) == \E i \in 1..Len(s) : s[i] = c

\* code point of a character (ASCII), the order of str comparison and of
\* the engine's BINARY collation
CharCode(c) ==
  IF Occurs(c, Lowers) THEN 96 + IndexIn(c, Lowers)
  ELSE IF Occurs(c, Uppers) THEN 64 + IndexIn(c, Uppers)
  ELSE IF Occurs(c, Digits) THEN 47 + IndexIn(c, Digits)
  ELSE IF c = " " THEN 32
  ELSE IF c = "%" THEN 37
  ELSE IF c = "." THEN 46
  ELSE IF c = ";" THEN 59
  ELSE 95  \* "_"

\* str.upper / str.lower on one character
UpperChar(c) == IF Occurs(c, Lowers) THEN Uppers[IndexIn(c, Lowers)] ELSE c
LowerChar(c) == IF Occurs(c, Uppers) THEN Lowers[IndexIn(c, Uppers)] ELSE c

upper(s) == [i \in 1..Len(s) |-> UpperChar(s[i])]
lower(s) == [i \in 1..Len(s) |-> LowerChar(s[i])]

IsSpace(c) == c = " "

RECURSIVE lstrip(_)
lstrip(s) == IF s # <<>> /\ IsSpace(Head(s)) THEN lstrip(Tail(s)) ELSE s

RECURSIVE rstrip(_)
rstrip(s) ==
  IF s # <<>> /\ IsSpace(s[Len(s)]) THEN rstrip(SubSeq(s, 1, Len(s) - 1)) ELSE s

\* str.strip()
strip(s) == rstrip(lstrip(s))

\* str.startswith(prefix)
startswith(s, prefix) ==
  Len(s) >= Len(prefix) /\ SubSeq(s, 1, Len(prefix)) = prefix

\* s < t in code-point (lexicographic) order
RECURSIVE StrLess(_, _)
StrLess(s, t) ==
  IF t = <<>> THEN FALSE
  ELSE IF s = <<>> THEN TRUE
  ELSE IF CharCode(Head(s)) # CharCode(Head(t))
       THEN CharCode(Head(s)) < CharCode(Head(t))
       ELSE StrLess(Tail(s), Tail(t))

\* the engine's ORDER BY name over a set of names
RECURSIVE SortNames(_)
SortNames(S) ==
  IF S = {} THEN <<>>
  ELSE LET m == CHOOSE x \in S : \A y \in S \ {x} : StrLess(x, y)
       IN <<m>> \o SortNames(S \ {m})

\* the engine's LIKE operator: % matches any run of characters, _ matches
\* exactly one character, letters compare case-insensitively
RECURSIVE Like(_, _)
Like(s, pat) ==
  IF pat = <<>> THEN s = <<>>
  ELSE IF Head(pat) = "%"
       THEN Like(s, Tail(pat)) \/ (s # <<>> /\ Like(Tail(s), pat))
  ELSE IF s = <<>> THEN FALSE
  ELSE IF Head(pat) = "_" THEN Like(Tail(s), Tail(pat))
  ELSE LowerChar(Head(s)) = LowerChar(Head(pat)) /\ Like(Tail(s), Tail(pat))

\* the orders a result set can come in: sequences holding each row once
Arrangements(S) ==
  {s \in [1..Cardinality(S) -> S] : \A i, j \in DOMAIN s : s[i] = s[j] => i = j}

\* ------------------------------------------------------------- file system
None == "None"

PathA == "a.db"
PathJunk == "B.SQLITE"
PathText == "c.txt"
PathMissing == "d.db"
PathDir == "e.sqlite3"
Paths == {PathA, PathJunk, PathText, PathMissing, PathDir}

\* Path(file_path).exists()
Exists(p) == p # PathMissing

\* Path(file_path).suffix
Suffix(p) ==
  CASE p = PathA -> <<".","d","b">>
    [] p = PathJunk -> <<".","S","Q","L","I","T","E">>
    [] p = PathText -> <<".","t","x","t">>
    [] p = PathMissing -> <<".","d","b">>
    [] OTHER -> <<".","s","q","l","i","t","e","3">>

\* what the file holds: "db" a database, "junk" bytes that are no database,
\* "dir" something the engine cannot open (a directory, an unreadable file)
FileKind(p) ==
  CASE p = PathA -> "db"
    [] p = PathDir -> "dir"
    [] OTHER -> "junk"

SUPPORTED_EXTENSIONS ==
  { <<".","d","b">>,
    <<".","s","q","l","i","t","e">>,
    <<".","s","q","l","i","t","e","3">> }

\* ------------------------------------------------------- database catalog
TableT == <<"t">>
TableOrders == <<"o","r","d","e","r","s">>
TableSqlitelog == <<"s","q","l","i","t","e","l","o","g">>
TableSequence == <<"s","q","l","i","t","e","_","s","e","q","u","e","n","c","e">>
TableNope == <<"n","o","p","e">>
ViewV == <<"v">>

\* tables a CREATE TABLE statement of the model may add
CreatableTables == {TableSqlitelog}
\* table names passed to the per-table operations
TableArgs == {TableT, TableSqlitelog, TableNope}
\* table names passed to get_table_data
DataTables == {TableT, TableNope}
RowNames == {"a", "b"}
AllRows == [id : 1..MaxRows, name : RowNames]

\* the views of a.db
DbViews == {ViewV}

VARIABLES
  connection,   \* SQLiteConnector._connection: a handle id, 0 for None
  file_path,    \* SQLiteConnector._file_path: a path or None
  handles,      \* engine: open handles, id -> [path, busy_timeout]
  tables,       \* a.db: names of the tables in sqlite_master
  rows,         \* a.db: rows of table t(id INTEGER PRIMARY KEY, name TEXT)
  last,         \* the last call on a component and its outcome
  connectors,   \* ConnectorFactory._connectors: <<extension, class>> pairs
                \* in insertion order
  store,        \* query_history.db: the rows of table query_history
  sequence,     \* query_history.db: the largest id AUTOINCREMENT has given
  clock,        \* the wall clock read by datetime.now()
  window,       \* MainWindow: its connector, the connector of its
                \* QueryEditor, whether its database actions are enabled
  viewer,       \* MainWindow.data_viewer: the fields of the DataViewer and
                \* its page-number input
  reader        \* a get_statistics call of a second caller of the store:
                \* the statement it is at and the counts it has fetched

connectorVars == <<connection, file_path, handles, tables, rows>>
factoryVars == <<connectors>>
historyVars == <<store, sequence, clock, reader>>
windowVars == <<window, viewer>>
vars == <<connection, file_path, handles, tables, rows, last,
          connectors, store, sequence, clock, window, viewer, reader>>


\* --------------------------------------------------------------- statements
KwSELECT == <<"S","E","L","E","C","T">>
KwSelectLower == <<" "," ","s","e","l","e","c","t"," ">>
KwDelete == <<"d","e","l","e","t","e"," ">>
KwINSERT == <<"I","N","S","E","R","T"," ">>
KwUPDATE == <<"U","P","D","A","T","E"," ">>
KwCREATE == <<"C","R","E","A","T","E"," ">>
KwPRAGMA == <<"P","R","A","G","M","A"," ">>
KwSELEKT == <<"S","E","L","E","K","T"," ">>
KwWITH == <<"W","I","T","H"," ">>

\* A statement: text holds its leading characters (all the connector looks
\* at), the other fields say what the engine makes of it.
\*   select      SELECT * FROM table [ORDER BY col dir] [LIMIT l OFFSET o]
\*   insert      INSERT INTO t VALUES (id, name)
\*   update      UPDATE t SET name = name WHERE id = id
\*   delete      DELETE FROM t WHERE id = id
\*   delete_all  DELETE FROM t
\*   create      CREATE TABLE table (x)
\*   pragma      PRAGMA table_info('t')
\*   syntax      text the engine cannot parse
\*   multi       two statements in one text
\*   unencodable text holding a lone surrogate, which has no UTF-8 encoding
\* A select or insert whose text begins with WITH is the statement behind a
\* common table expression: WITH c AS (SELECT * FROM t) SELECT * FROM c,
\* WITH c(i, n) AS (SELECT id, name) INSERT INTO t SELECT i, n FROM c.
Q(text, kind, table, id, name) ==
  [text |-> text, kind |-> kind, table |-> table, id |-> id, name |-> name,
   order_by |-> None, order_desc |-> FALSE, limit |-> -1, offset |-> 0]

NoQuery == Q(<<>>, None, <<>>, 0, None)

UserQueries ==
  { Q(KwSELECT, "select", TableT, 0, None),
    Q(KwSelectLower, "select", TableT, 0, None),
    Q(KwSELECT, "select", TableNope, 0, None),
    Q(KwDelete, "delete_all", TableT, 0, None),
    Q(KwPRAGMA, "pragma", TableT, 0, None),
    Q(KwSELEKT, "syntax", <<>>, 0, None),
    Q(KwSELECT, "multi", <<>>, 0, None),
    Q(KwSELECT, "unencodable", <<>>, 0, None),
    Q(KwWITH, "select", TableT, 0, None),
    Q(KwWITH, "insert", TableT, 2, "b") }
  \cup { Q(KwDelete, "delete", TableT, k, None) : k \in 1..MaxRows }
  \cup { Q(KwINSERT, "insert", TableT, r.id, r.name) : r \in AllRows }
  \cup { Q(KwUPDATE, "update", TableT, k, "b") : k \in 1..MaxRows }
  \cup { Q(KwCREATE, "create", x, 0, None) : x \in CreatableTables }

Timeouts == {5, 30}

\* ------------------------------------------------------------------ engine
\* exception classes of the sqlite3 binding that derive from sqlite3.Error
Sqlite3Errors ==
  {"DatabaseError", "OperationalError", "IntegrityError", "ProgrammingError"}

IsDml(q) == q.kind \in {"insert", "update", "delete", "delete_all"}

Columns(tab) ==
  IF tab = TableT THEN <<"id", "name">>
  ELSE IF tab = TableSequence THEN <<"name", "seq">>
  ELSE <<"x">>

RowsOf(tab) == IF tab = TableT THEN rows ELSE {}

SortKey(r, col) ==
  IF col = "id" THEN r.id
  ELSE IF col = "name" THEN CharCode(r.name)
  ELSE 0

\* an ORDER BY that ignores the direction
Before_ascending(r, u, col, desc) ==
  IF SortKey(r, col) # SortKey(u, col)
  THEN SortKey(r, col) < SortKey(u, col)
  ELSE r.id < u.id

\* r comes before u in the result of ORDER BY "col" dir; without ORDER BY,
\* and among equal keys, rows come in rowid (= id) order.  A double-quoted
\* name that is no column of the table is read by the engine as a string
\* literal, a constant key (SortKey 0).
Before(r, u, col, desc) ==
  IF SortKey(r, col) # SortKey(u, col)
  THEN IF desc THEN SortKey(r, col) > SortKey(u, col)
               ELSE SortKey(r, col) < SortKey(u, col)
  ELSE r.id < u.id

RECURSIVE OrderRows(_, _, _)
OrderRows(S, col, desc) ==
  IF S = {} THEN <<>>
  ELSE LET m == CHOOSE x \in S : \A y \in S \ {x} : Before(x, y, col, desc)
       IN << <<m.id, m.name>> >> \o OrderRows(S \ {m}, col, desc)

Min(a, b) == IF a < b THEN a ELSE b

\* LIMIT l OFFSET o; a negative limit means no limit
LimitOffset(s, l, o) ==
  SubSeq(s, o + 1, IF l < 0 THEN Len(s) ELSE Min(Len(s), o + l))

SelectRows(q) ==
  LimitOffset(OrderRows(RowsOf(q.table), q.order_by, q.order_desc),
              q.limit, q.offset)

\* rows of t the statement matches
Matched(q) ==
  IF q.kind = "delete_all" THEN rows ELSE {r \in rows : r.id = q.id}

\* cursor.rowcount: the binding counts changed rows only for a statement
\* whose text begins with INSERT, UPDATE, DELETE or REPLACE, in any letter
\* case; for every other statement it is -1
DmlKeywords ==
  { <<"I","N","S","E","R","T">>, <<"U","P","D","A","T","E">>,
    <<"D","E","L","E","T","E">>, <<"R","E","P","L","A","C","E">> }
Rowcount(q, n) ==
  IF \E k \in DmlKeywords : startswith(upper(lstrip(q.text)), k)
  THEN n ELSE -1

\* outcome of cursor.execute(text) on handle h: the exception raised (None
\* if none), cursor.description, the rows to fetch, cursor.rowcount and the
\* database afterwards.  locked: another process holds the file lock for
\* longer than busy_timeout.
Outcome(exc, cols, fetched, rowcount, tabs, rws) ==
  [exc |-> exc, cols |-> cols, fetched |-> fetched, rowcount |-> rowcount,
   tables |-> tabs, rows |-> rws]

Fails(exc) == Outcome(exc, <<>>, <<>>, -1, tables, rows)

Execute(h, q, locked) ==
  IF q.kind = "unencodable" THEN Fails("UnicodeEncodeError")
  ELSE IF q.kind = "multi" THEN Fails("ProgrammingError")
  ELSE IF q.kind = "syntax" THEN Fails("OperationalError")
  ELSE IF FileKind(handles[h].path) # "db" THEN Fails("DatabaseError")
  ELSE IF q.kind \in {"select", "insert", "update", "delete", "delete_all"}
          /\ q.table \notin tables
       THEN Fails("OperationalError")
  ELSE IF q.kind = "create" /\ q.table \in tables
       THEN Fails("OperationalError")
  ELSE IF locked THEN Fails("OperationalError")
  ELSE CASE q.kind = "select" ->
              Outcome(None, Columns(q.table), SelectRows(q), -1, tables, rows)
         [] q.kind = "pragma" ->
              Outcome(None, <<"cid", "name", "type", "notnull", "dflt_value", "pk">>,
                      << <<0, "id">>, <<1, "name">> >>, -1, tables, rows)
         [] q.kind = "create" ->
              Outcome(None, <<>>, <<>>, -1, tables \cup {q.table}, rows)
         [] q.kind = "insert" ->
              IF \E r \in rows : r.id = q.id
              THEN Fails("IntegrityError")
              ELSE Outcome(None, <<>>, <<>>, Rowcount(q, 1), tables,
                           rows \cup {[id |-> q.id, name |-> q.name]})
         [] q.kind = "update" ->
              Outcome(None, <<>>, <<>>, Rowcount(q, Cardinality(Matched(q))),
                      tables,
                      (rows \ Matched(q))
                        \cup {[id |-> r.id, name |-> q.name] : r \in Matched(q)})
         [] OTHER ->
              Outcome(None, <<>>, <<>>, Rowcount(q, Cardinality(Matched(q))),
                      tables, rows \ Matched(q))

\* --------------------------------------------------------------- connector
\* base_connector.QueryResult (execution_time, a clock reading, is left out)
QueryResult(columns, rws, row_count, error) ==
  [columns |-> columns, rows |-> rws, row_count |-> row_count, error |-> error]

\* success judged by the rows a statement produced
success_rows(r) == r.row_count > 0

\* QueryResult.success
success(r) == r.error = None

NoOutcome == Outcome(None, <<>>, <<>>, -1, {}, {})

\* rows of user data a statement changes when the engine runs it
RowsChanged(q, e) ==
  IF e.exc # None THEN 0
  ELSE IF q.kind = "insert" THEN 1
  ELSE IF IsDml(q) THEN Cardinality(Matched(q))
  ELSE 0

\* the record kept of a call: its arguments, the exception it raised (None
\* if it returned), the value it returned, and what happened underneath
NoCall ==
  [op |-> "init", path |-> None, table |-> <<>>, query |-> NoQuery,
   timeout |-> 0, offset |-> 0, limit |-> 0,
   raised |-> None, ret |-> None,
   failed |-> FALSE, committed |-> FALSE, changed |-> 0, engine |-> NoOutcome,
   wasConnected |-> FALSE, closeFailed |-> FALSE]

\* smallest handle id the engine has not in use
NewHandle(hs) == CHOOSE i \in 1..(Cardinality(DOMAIN hs) + 1) : i \notin DOMAIN hs

Without(hs, h) == [i \in DOMAIN hs \ {h} |-> hs[i]]

\* a disconnect that forgets to reset _file_path
Disconnected_keepPath ==
  IF connection # 0
  THEN [connection |-> 0, file_path |-> file_path, handles |-> Without(handles, connection)]
  ELSE [connection |-> connection, file_path |-> file_path, handles |-> handles]

\* SQLiteConnector.disconnect: the fields and the engine's handles after
\* it.  Connection.close() may raise sqlite3.Error, which is swallowed; the
\* finally clause drops the only reference to the Connection, and the
\* engine handle goes with it either way.
Disconnected ==
  IF connection # 0
  THEN [connection |-> 0, file_path |-> None, handles |-> Without(handles, connection)]
  ELSE [connection |-> connection, file_path |-> file_path, handles |-> handles]

\* a connect that opens the new handle without closing the one it holds
ClosePrior_skip ==
  [connection |-> connection, file_path |-> file_path, handles |-> handles]

\* connect, "Close existing connection if any"
ClosePrior ==
  IF connection # 0
  THEN Disconnected
  ELSE [connection |-> connection, file_path |-> file_path, handles |-> handles]

\* an extension test that forgets .lower()
SupportedSuffix_cased(p) == Suffix(p) \in SUPPORTED_EXTENSIONS

\* connect's extension test
SupportedSuffix(p) == lower(Suffix(p)) \in SUPPORTED_EXTENSIONS

\* what sqlite3.connect and the PRAGMA after it can do with an existing
\* file: the engine opens lazily, so only a file it cannot open at all is
\* refused by sqlite3.connect; the PRAGMA can fail on a handle that is open
ConnectOutcomes(p) ==
  IF FileKind(p) = "dir" THEN {"open_error"} ELSE {"ok", "pragma_error"}

Connect(p) ==
  /\ UNCHANGED <<factoryVars, historyVars, windowVars>>
  /\ /\ UNCHANGED <<tables, rows>>
     /\ IF ~Exists(p) \/ ~SupportedSuffix(p)
        THEN /\ UNCHANGED <<connection, file_path, handles>>
             /\ last' = [NoCall EXCEPT !.op = "connect", !.path = p,
                           !.wasConnected = (connection # 0),
                           !.raised = "ConnectionError", !.failed = TRUE]
        ELSE \E out \in ConnectOutcomes(p), closeFails \in BOOLEAN :
             LET prior == ClosePrior
                 h == NewHandle(prior.handles)
                 opened == [i \in DOMAIN prior.handles \cup {h} |->
                              IF i = h
                              THEN [path |-> p, busy_timeout |-> 30000]
                              ELSE prior.handles[i]]
                 call == [NoCall EXCEPT !.op = "connect", !.path = p,
                            !.wasConnected = (connection # 0),
                            !.closeFailed = (closeFails /\ connection # 0),
                            !.engine = [NoOutcome EXCEPT !.exc =
                                          IF out = "ok" THEN None ELSE "OperationalError"]]
             IN /\ closeFails => connection # 0
                /\ CASE out = "open_error" ->
                          /\ connection' = prior.connection
                          /\ file_path' = prior.file_path
                          /\ handles' = prior.handles
                          /\ last' = [call EXCEPT !.raised = "ConnectionError",
                                                   !.failed = TRUE]
                     [] out = "pragma_error" ->
                          /\ connection' = h
                          /\ file_path' = prior.file_path
                          /\ handles' = opened
                          /\ last' = [call EXCEPT !.raised = "ConnectionError",
                                                   !.failed = TRUE]
                     [] OTHER ->
                          /\ connection' = h
                          /\ file_path' = p
                          /\ handles' = opened
                          /\ last' = [call EXCEPT !.ret = TRUE]

Disconnect ==
  /\ UNCHANGED <<factoryVars, historyVars, windowVars>>
  /\ \E closeFails \in BOOLEAN :
       /\ closeFails => connection # 0
       /\ connection' = Disconnected.connection
       /\ file_path' = Disconnected.file_path
       /\ handles' = Disconnected.handles
       /\ last' = [NoCall EXCEPT !.op = "disconnect",
                     !.wasConnected = (connection # 0),
                     !.closeFailed = closeFails]
       /\ UNCHANGED <<tables, rows>>

SELECT == <<"S","E","L","E","C","T">>

\* a lock wait configured in seconds where the engine reads milliseconds
BusyTimeout_seconds(timeout) == timeout

\* the value of PRAGMA busy_timeout = {timeout * 1000}
BusyTimeout(timeout) == timeout * 1000

\* execute_query's test "Check if it's a SELECT query"
IsSelect(text) == startswith(upper(strip(text)), SELECT)

\* Every statement that changes rows takes the commit branch, so the database
\* is kept in its committed state and the commit call is recorded as a flag.
\* SQLiteConnector.execute_query as a function of the state: the exception
\* it raises (None if it returns), the QueryResult it returns, the state
\* afterwards, and what the engine did
Returned(raised, ret, hs, e, committed) ==
  [raised |-> raised, ret |-> ret, handles |-> hs,
   tables |-> e.tables, rows |-> e.rows, engine |-> e, committed |-> committed]

execute_query(q, timeout, locked) ==
  IF connection = 0
  THEN Returned(None, QueryResult(<<>>, <<>>, 0, "Not connected to database"),
                handles, [NoOutcome EXCEPT !.tables = tables, !.rows = rows,
                                            !.exc = "NotConnected"], FALSE)
  ELSE LET h == connection
           \* PRAGMA busy_timeout = timeout * 1000
           timed == [handles EXCEPT ![h].busy_timeout = BusyTimeout(timeout)]
           e == Execute(h, q, locked)
       IN IF e.exc # None
          THEN IF e.exc \in Sqlite3Errors
               THEN Returned(None, QueryResult(<<>>, <<>>, 0, e.exc),
                             timed, e, FALSE)
               ELSE Returned(e.exc, None,
                             timed, e, FALSE)
          ELSE IF IsSelect(q.text)
               THEN Returned(None,
                             QueryResult(e.cols, e.fetched, Len(e.fetched), None),
                             timed, e, FALSE)
               ELSE \* self._connection.commit()
                    Returned(None,
                             QueryResult(<<"affected_rows">>, << <<e.rowcount>> >>,
                                         e.rowcount, None),
                             timed, e, TRUE)

\* the calls of execute_query: every statement with the default timeout,
\* and the reads and deletes of t with a short one as well
QueryCalls ==
  (UserQueries \X {30})
    \cup ({q \in UserQueries :
             q.table = TableT /\ q.kind \in {"select", "delete_all"}}
             \X (Timeouts \ {30}))

\* whether another process holds the file lock during the call: tried for
\* the statements on t that read, insert and delete
LockChoices(q) ==
  IF q.table = TableT /\ q.kind \in {"select", "insert", "delete_all"}
  THEN BOOLEAN ELSE {FALSE}

ExecuteQuery(q, timeout) ==
  /\ UNCHANGED <<factoryVars, historyVars, windowVars>>
  /\ \E locked \in LockChoices(q) :
       \E r \in {execute_query(q, timeout, locked)} :
          /\ handles' = r.handles
          /\ tables' = r.tables
          /\ rows' = r.rows
          /\ last' = [NoCall EXCEPT !.op = "execute_query", !.query = q,
                        !.timeout = timeout, !.wasConnected = (connection # 0),
                        !.raised = r.raised, !.ret = r.ret,
                        !.failed = (r.engine.exc # None),
                        !.committed = r.committed,
                        !.changed = RowsChanged(q, r.engine),
                        !.engine = r.engine]
          /\ UNCHANGED <<connection, file_path>>

\* a statement with limit and offset interpolated in each other's place
TableDataQuery_swapped(table, offset, limit, order_by, order_desc) ==
  [text |-> SELECT, kind |-> "select", table |-> table, id |-> 0, name |-> None,
   order_by |-> order_by, order_desc |-> (order_by # None /\ order_desc),
   limit |-> offset, offset |-> limit]

\* the statement get_table_data builds
TableDataQuery(table, offset, limit, order_by, order_desc) ==
  [text |-> SELECT, kind |-> "select", table |-> table, id |-> 0, name |-> None,
   order_by |-> order_by, order_desc |-> (order_by # None /\ order_desc),
   limit |-> limit, offset |-> offset]

\* (order_by, order_desc) pairs passed to get_table_data
OrderChoices ==
  {<<None, FALSE>>, <<"id", FALSE>>, <<"id", TRUE>>, <<"name", FALSE>>,
   <<"zz", TRUE>>}

\* the calls of get_table_data: every page and ordering of table t, and one
\* call for a table that does not exist
TableDataArgs ==
  ({TableT} \X (0..MaxPage) \X (0..MaxPage) \X OrderChoices)
    \cup {<<x, 0, 1, <<None, FALSE>> >> : x \in DataTables \ {TableT}}

GetTableData(table, offset, limit, order_by, order_desc) ==
  /\ UNCHANGED <<factoryVars, historyVars, windowVars>>
  /\ IF connection = 0
     THEN /\ last' = [NoCall EXCEPT !.op = "get_table_data", !.table = table,
                        !.offset = offset, !.limit = limit,
                        !.raised = "QueryError", !.failed = TRUE]
          /\ UNCHANGED <<connection, file_path, handles, tables, rows>>
     ELSE \E q \in {TableDataQuery(table, offset, limit, order_by, order_desc)} :
          \E r \in {execute_query(q, 30, FALSE)} :
             /\ handles' = r.handles
             /\ tables' = r.tables
             /\ rows' = r.rows
             /\ last' = [NoCall EXCEPT !.op = "get_table_data", !.table = table,
                           !.offset = offset, !.limit = limit, !.query = q,
                           !.timeout = 30, !.wasConnected = TRUE,
                           !.raised = r.raised, !.ret = r.ret,
                           !.failed = (r.engine.exc # None),
                           !.committed = r.committed,
                           !.changed = RowsChanged(q, r.engine),
                           !.engine = r.engine]
             /\ UNCHANGED <<connection, file_path>>

\* whether a catalog statement on the connector's handle fails in the engine
CatalogFails(locked) == FileKind(handles[connection].path) # "db" \/ locked

\* what a method hands back: the exception raised (None if it returned)
\* and the value returned
Return(v) == [raised |-> None, ret |-> v]
Raise(exc) == [raised |-> exc, ret |-> None]

\* a get_row_count that reports a failed count like get_tables does
get_row_count_propagates(table, locked) ==
  IF connection = 0 THEN Return(0)
  ELSE IF CatalogFails(locked) \/ table \notin tables
       THEN Raise("QueryError")
       ELSE Return(Cardinality(RowsOf(table)))

\* SQLiteConnector.get_row_count
get_row_count(table, locked) ==
  IF connection = 0 THEN Return(0)
  ELSE IF CatalogFails(locked) \/ table \notin tables
       THEN \* except sqlite3.Error: return 0
            Return(0)
       ELSE Return(Cardinality(RowsOf(table)))

GetRowCount(table) ==
  /\ UNCHANGED <<factoryVars, historyVars, windowVars>>
  /\ \E locked \in BOOLEAN :
     \E r \in {get_row_count(table, locked)} :
       /\ last' = [NoCall EXCEPT !.op = "get_row_count", !.table = table,
                     !.wasConnected = (connection # 0),
                     !.failed = (connection = 0 \/ CatalogFails(locked)
                                 \/ table \notin tables),
                     !.raised = r.raised, !.ret = r.ret]
       /\ UNCHANGED <<connection, file_path, handles, tables, rows>>

\* SQLiteConnector.get_views
get_views(locked) ==
  IF connection = 0 THEN Return(<<>>)
  ELSE IF CatalogFails(locked)
       THEN \* except sqlite3.Error: return []
            Return(<<>>)
       ELSE Return(SortNames(DbViews))

GetViews ==
  /\ UNCHANGED <<factoryVars, historyVars, windowVars>>
  /\ \E locked \in BOOLEAN :
     \E r \in {get_views(locked)} :
       /\ last' = [NoCall EXCEPT !.op = "get_views",
                     !.wasConnected = (connection # 0),
                     !.failed = (connection = 0 \/ CatalogFails(locked)),
                     !.raised = r.raised, !.ret = r.ret]
       /\ UNCHANGED <<connection, file_path, handles, tables, rows>>

\* the pattern of get_tables' filter, name NOT LIKE 'sqlite_%'
InternalPattern == <<"s","q","l","i","t","e","_","%">>

\* the rows of get_tables' catalog query
ListedTables == SortNames({n \in tables : ~Like(n, InternalPattern)})

GetTables ==
  /\ UNCHANGED <<factoryVars, historyVars, windowVars>>
  /\ \E locked \in BOOLEAN :
       /\ IF connection = 0
          THEN last' = [NoCall EXCEPT !.op = "get_tables", !.ret = <<>>]
          ELSE IF CatalogFails(locked)
          THEN last' = [NoCall EXCEPT !.op = "get_tables", !.wasConnected = TRUE,
                          !.raised = "QueryError", !.failed = TRUE]
          ELSE last' = [NoCall EXCEPT !.op = "get_tables", !.wasConnected = TRUE,
                          !.ret = ListedTables]
       /\ UNCHANGED <<connection, file_path, handles, tables, rows>>

\* base_connector.TableSchema as get_schema fills it
TableSchema(table, lockedCount) ==
  LET found == table \in tables
  IN [name |-> table,
      columns |-> IF found THEN Columns(table) ELSE <<>>,
      primary_keys |-> IF found /\ table = TableT THEN <<"id">> ELSE <<>>,
      row_count |-> get_row_count(table, lockedCount).ret,
      ddl |-> IF found THEN "CREATE TABLE" ELSE ""]

GetSchema(table) ==
  /\ UNCHANGED <<factoryVars, historyVars, windowVars>>
  /\ \E locked \in BOOLEAN, lockedCount \in BOOLEAN :
       /\ IF connection = 0
          THEN last' = [NoCall EXCEPT !.op = "get_schema", !.table = table,
                          !.raised = "QueryError", !.failed = TRUE]
          ELSE IF CatalogFails(locked)
          THEN last' = [NoCall EXCEPT !.op = "get_schema", !.table = table,
                          !.wasConnected = TRUE,
                          !.raised = "QueryError", !.failed = TRUE]
          ELSE last' = [NoCall EXCEPT !.op = "get_schema", !.table = table,
                          !.wasConnected = TRUE,
                          !.ret = TableSchema(table, lockedCount)]
       /\ UNCHANGED <<connection, file_path, handles, tables, rows>>

\* ----------------------------------------------------------------- factory
\* ConnectorFactory._connectors as the class body defines it
InitialConnectors ==
  << <<<<".","d","b">>, "SQLiteConnector">>, <<<<".","s","q","l","i","t","e">>, "SQLiteConnector">>,
     <<<<".","s","q","l","i","t","e","3">>, "SQLiteConnector">> >>

\* connector classes: the one shipped, and a backend registered at run
\* time
SQLiteConnector == "SQLiteConnector"
DuckConnector == "DuckConnector"
ConnectorClasses == {SQLiteConnector, DuckConnector}

\* BaseConnector.database_type of an instance of the class
database_type(cls) == IF cls = SQLiteConnector THEN "SQLite" ELSE "Duck"

\* a new instance: SQLiteConnector.__init__
NewConnector(cls) == [class |-> cls, connection |-> 0, file_path |-> None]

\* paths handed to the factory
FactoryPaths ==
  { <<"x",".","D","B">>, <<"y",".","D","u","c","k","D","b">>, <<"f",".","x","y","z">>,
    <<".","d","b">>, <<"d",".","d","b","/","f">>, <<"a",".","b",".","m","d","b">> }

\* extensions handed to register_connector
ExtensionArgs == { <<"D","u","c","k","D","B">>, <<".","d","u","c","k","d","b">>, <<".","d","b">>, <<".","M","D","B">> }

\* str.rfind(c) + 1: the last index of c in s, 0 if there is none
LastIndex(c, s) ==
  IF Occurs(c, s)
  THEN CHOOSE i \in 1..Len(s) : s[i] = c /\ \A j \in (i + 1)..Len(s) : s[j] # c
  ELSE 0

\* PurePath.name: the last component of the path
PathName(p) == SubSeq(p, LastIndex("/", p) + 1, Len(p))

\* PurePath.suffix: the name from its last dot on, unless that dot is the
\* first or the last character of the name
PathSuffix(p) ==
  LET name == PathName(p)
      i == LastIndex(".", name)
  IN IF 1 < i /\ i < Len(name) THEN SubSeq(name, i, Len(name)) ELSE <<>>

\* dict operations on the registry: keys(), in, [], []=
Keys(reg) == [i \in DOMAIN reg |-> reg[i][1]]
HasKey(reg, k) == \E i \in DOMAIN reg : reg[i][1] = k
GetItem(reg, k) == reg[CHOOSE i \in DOMAIN reg : reg[i][1] = k][2]
SetItem(reg, k, v) ==
  IF HasKey(reg, k)
  THEN [i \in DOMAIN reg |-> IF reg[i][1] = k THEN <<k, v>> ELSE reg[i]]
  ELSE Append(reg, <<k, v>>)

\* sep.join(xs)
RECURSIVE Join(_, _)
Join(sep, xs) ==
  IF xs = <<>> THEN <<>>
  ELSE IF Len(xs) = 1 THEN xs[1]
  ELSE xs[1] \o sep \o Join(sep, Tail(xs))

MsgUnsupported == <<"U","n","s","u","p","p","o","r","t","e","d"," ","f","i","l","e"," ","t","y","p","e",":"," ">>
MsgSupported == <<"."," ","S","u","p","p","o","r","t","e","d"," ","t","y","p","e","s",":"," ">>

\* a list of the extensions the class body defines
get_supported_extensions_builtin == Keys(InitialConnectors)

\* ConnectorFactory.get_supported_extensions
get_supported_extensions == Keys(connectors)

\* a test of the extension as it is spelled in the path
is_supported_cased(p) == HasKey(connectors, PathSuffix(p))

\* ConnectorFactory.is_supported
is_supported(p) == HasKey(connectors, lower(PathSuffix(p)))

\* ConnectorFactory.create_connector
create_connector(p) ==
  LET ext == lower(PathSuffix(p))
  IN IF ~HasKey(connectors, ext)
     THEN [raised |-> "UnsupportedDatabaseError", ret |-> None,
           message |-> MsgUnsupported \o ext \o MsgSupported
                         \o Join(<<",", " ">>, get_supported_extensions)]
     ELSE [raised |-> None, ret |-> NewConnector(GetItem(connectors, ext)),
           message |-> <<>>]

\* a registration that keeps the letter case of the extension
RegistryKey_cased(extension) ==
  IF ~startswith(extension, <<".">>) THEN <<".">> \o extension ELSE extension

\* the key register_connector stores the class under
RegistryKey(extension) ==
  lower(IF ~startswith(extension, <<".">>) THEN <<".">> \o extension
        ELSE extension)

\* the record kept of a call on the factory
FactoryCall(op, path, extension, class, r) ==
  [op |-> op, path |-> path, extension |-> extension, class |-> class,
   raised |-> r.raised, ret |-> r.ret, message |-> r.message,
   before |-> connectors]

Returns(v) == [raised |-> None, ret |-> v, message |-> <<>>]

CreateConnector(p) ==
  /\ last' = FactoryCall("create_connector", p, <<>>, None, create_connector(p))
  /\ UNCHANGED <<connectorVars, factoryVars, historyVars, windowVars>>

GetSupportedExtensions ==
  /\ last' = FactoryCall("get_supported_extensions", <<>>, <<>>, None,
                         Returns(get_supported_extensions))
  /\ UNCHANGED <<connectorVars, factoryVars, historyVars, windowVars>>

IsSupported(p) ==
  /\ last' = FactoryCall("is_supported", p, <<>>, None, Returns(is_supported(p)))
  /\ UNCHANGED <<connectorVars, factoryVars, historyVars, windowVars>>

RegisterConnector(extension, cls) ==
  /\ connectors' = SetItem(connectors, RegistryKey(extension), cls)
  /\ last' = FactoryCall("register_connector", <<>>, extension, cls, Returns(None))
  /\ UNCHANGED <<connectorVars, historyVars, windowVars>>

\* ConnectorFactory.get_database_type
GetDatabaseType(p) ==
  /\ \E r \in {create_connector(p)} :
       last' = FactoryCall("get_database_type", p, <<>>, None,
                           IF r.raised # None THEN r
                           ELSE Returns(database_type(r.ret.class)))
  /\ UNCHANGED <<connectorVars, factoryVars, historyVars, windowVars>>


\* ----------------------------------------------------------- history store
\* a character with no UTF-8 encoding (a lone surrogate)
Surrogate == "U+D800"
Encodable(text) == ~Occurs(Surrogate, text)

\* QueryRecord as the caller builds it; id None, timestamp empty unless
\* the caller supplies one
QueryRecord(database_path, query_text, timestamp, execution_time, ok) ==
  [id |-> None, database_path |-> database_path, query_text |-> query_text,
   timestamp |-> timestamp, execution_time |-> execution_time,
   row_count |-> 0, success |-> ok, error_message |-> <<>>]

\* the record field of a call that takes no record
NoRecord == QueryRecord(<<>>, <<>>, <<>>, 0, FALSE)

HistPathA == <<"a",".","d","b">>
HistPathB == <<"b",".","d","b">>

\* records handed to add_query
RecordArgs ==
  { QueryRecord(HistPathA, <<"S","e","l">>, <<>>, 2, TRUE),
    [QueryRecord(HistPathB, <<"a","_","b">>, <<>>, 4, TRUE)
       EXCEPT !.row_count = 3],
    [QueryRecord(<<>>, <<"a","x","b">>, <<"0">>, 9, FALSE)
       EXCEPT !.error_message = <<"e">>],
    QueryRecord(HistPathA, <<"S","e","l">>, <<"0">>, 5, TRUE),
    QueryRecord(HistPathA, <<"S", Surrogate>>, <<>>, 1, TRUE) }

\* database_path = None, the default of get_history: no path given
NoPath == <<None>>
\* database_path arguments of get_history
HistoryPathArgs == {NoPath, <<>>, HistPathA}
\* search terms of search_history
SearchTerms == { <<"s","e","l">>, <<"a","_","b">>, <<"%">> }
\* limit arguments
HistoryLimits == {1, 2}

\* the clock may be read MaxClock times
MaxClock == MaxHistory + 1

\* datetime.isoformat(): fixed-width text, so that text order is time order
isoformat(t) == <<Digits[t + 1]>>

\* what the engine can raise on the store's file: it cannot be opened or
\* written, the table is missing, another process holds the lock
StoreFaults == {None, "OperationalError"}

\* int(record.success) on the way in, bool(row[6]) on the way out
ToInt(b) == IF b THEN 1 ELSE 0
ToBool(i) == i # 0

\* a rowid table without AUTOINCREMENT: one more than the largest id stored
NextId_rowid ==
  IF store = {} THEN 1
  ELSE (CHOOSE r \in store : \A u \in store : u.id <= r.id).id + 1

\* id INTEGER PRIMARY KEY AUTOINCREMENT: one more than the largest id the
\* table ever held, which the engine keeps in sqlite_sequence
NextId == sequence + 1

\* a row stamped with the current time whatever the caller supplied
InsertedRow_stamped(record) ==
  [record EXCEPT !.id = NextId,
                 !.timestamp = isoformat(clock),
                 !.success = ToInt(record.success)]

\* the row add_query inserts: the caller's fields, the assigned timestamp,
\* the id AUTOINCREMENT gives
InsertedRow(record) ==
  [record EXCEPT !.id = NextId,
                 !.timestamp = IF record.timestamp = <<>>
                               THEN isoformat(clock) ELSE record.timestamp,
                 !.success = ToInt(record.success)]

\* the QueryRecord built from a row
FromRow(row) == [row EXCEPT !.success = ToBool(row.success)]

\* what a call on the store hands back and leaves behind
Outcome2(raised, ret, st, seq) ==
  [raised |-> raised, ret |-> ret, store |-> st, sequence |-> seq]

\* QueryHistoryDB.add_query
add_query(record, fault) ==
  IF fault # None
  THEN \* except sqlite3.Error: return -1
       Outcome2(None, -1, store, sequence)
  ELSE IF ~Encodable(record.query_text)
  THEN \* cursor.execute raises UnicodeEncodeError, which is no sqlite3.Error
       Outcome2("UnicodeEncodeError", None, store, sequence)
  ELSE Outcome2(None, NextId, store \cup {InsertedRow(record)}, NextId)

\* rows in ORDER BY timestamp DESC; rows of equal timestamp in any order
ByTimestampDesc(S) ==
  {s \in Arrangements(S) :
     \A i, j \in DOMAIN s : i < j => ~StrLess(s[i].timestamp, s[j].timestamp)}

\* LIMIT n, and the rows turned into QueryRecords
Fetch(s, n) == [i \in 1..Min(Len(s), n) |-> FromRow(s[i])]

\* the rows get_history selects: "if database_path:" takes the filtered
\* statement only for a path that is neither None nor empty
HistoryRows(database_path) ==
  IF database_path # NoPath /\ database_path # <<>>
  THEN {r \in store : r.database_path = database_path}
  ELSE store

\* the rows search_history selects: query_text LIKE '%term%'
SearchRows(term) ==
  {r \in store : Like(r.query_text, <<"%">> \o term \o <<"%">>)}

\* QueryHistoryDB.delete_record
delete_record(record_id, fault) ==
  IF fault # None
  THEN Outcome2(None, FALSE, store, sequence)
  ELSE LET gone == {r \in store : r.id = record_id}
       IN \* deleted = cursor.rowcount > 0
          Outcome2(None, Cardinality(gone) > 0, store \ gone, sequence)

\* QueryHistoryDB.clear_history
clear_history(fault) ==
  IF fault # None
  THEN Outcome2(None, FALSE, store, sequence)
  ELSE Outcome2(None, TRUE, {}, sequence)

RECURSIVE SumTimes(_)
SumTimes(S) ==
  IF S = {} THEN 0
  ELSE LET r == CHOOSE x \in S : TRUE
       IN r.execution_time + SumTimes(S \ {r})

RECURSIVE Gcd(_, _)
Gcd(a, b) == IF b = 0 THEN a ELSE Gcd(b, a % b)

\* a quotient as a fraction in lowest terms
Fraction(n, d) == [num |-> n \div Gcd(n, d), den |-> d \div Gcd(n, d)]

\* an average taken over every row
Successful_all(S) == S

\* WHERE success = 1
Successful(S) == {r \in S : r.success = 1}

\* QueryHistoryDB.get_statistics
get_statistics(fault) ==
  IF fault # None
  THEN \* except sqlite3.Error: return {}
       <<>>
  ELSE LET total == Cardinality(store)
           good == Successful(store)
           ok == Cardinality({r \in store : r.success = 1})
       IN [total |-> total,
           success |-> ok,
           failed |-> total - ok,
           \* AVG(execution_time) ... or 0.0
           avg_execution_time |->
               IF ok = 0 \/ SumTimes(good) = 0 THEN Fraction(0, 1)
               ELSE Fraction(SumTimes(good), ok),
           unique_databases |-> Cardinality({r.database_path : r \in store})]

\* the record kept of a call on the store
HistoryCall(op, record, path, term, limit, id, fault, raised, ret) ==
  [op |-> op, record |-> record, path |-> path, term |-> term,
   limit |-> limit, id |-> id, fault |-> fault, raised |-> raised,
   ret |-> ret, before |-> store, now |-> clock]

AddQuery(record) ==
  /\ clock < MaxClock
  /\ sequence < MaxHistory
  /\ \E fault \in StoreFaults :
     \E r \in {add_query(record, fault)} :
       /\ store' = r.store
       /\ sequence' = r.sequence
       /\ last' = HistoryCall("add_query", record, NoPath, <<>>, 0, 0, fault,
                              r.raised, r.ret)
  /\ clock' = clock + 1
  /\ UNCHANGED <<connectorVars, factoryVars, windowVars, reader>>

GetHistory(limit, database_path) ==
  /\ \E fault \in StoreFaults :
       IF fault # None
       THEN last' = HistoryCall("get_history", NoRecord, database_path, <<>>,
                                limit, 0, fault, None, <<>>)
       ELSE \E s \in ByTimestampDesc(HistoryRows(database_path)) :
              last' = HistoryCall("get_history", NoRecord, database_path, <<>>,
                                  limit, 0, fault, None, Fetch(s, limit))
  /\ UNCHANGED <<connectorVars, factoryVars, historyVars, windowVars>>

SearchHistory(term, limit) ==
  /\ \E fault \in StoreFaults :
       IF fault # None
       THEN last' = HistoryCall("search_history", NoRecord, NoPath, term,
                                limit, 0, fault, None, <<>>)
       ELSE \E s \in ByTimestampDesc(SearchRows(term)) :
              last' = HistoryCall("search_history", NoRecord, NoPath, term,
                                  limit, 0, fault, None, Fetch(s, limit))
  /\ UNCHANGED <<connectorVars, factoryVars, historyVars, windowVars>>

DeleteRecord(record_id) ==
  /\ \E fault \in StoreFaults :
     \E r \in {delete_record(record_id, fault)} :
       /\ store' = r.store
       /\ last' = HistoryCall("delete_record", NoRecord, NoPath, <<>>, 0, record_id,
                              fault, r.raised, r.ret)
  /\ UNCHANGED <<connectorVars, factoryVars, windowVars, sequence, clock,
                 reader>>

ClearHistory ==
  /\ \E fault \in StoreFaults :
     \E r \in {clear_history(fault)} :
       /\ store' = r.store
       /\ last' = HistoryCall("clear_history", NoRecord, NoPath, <<>>, 0, 0,
                              fault, r.raised, r.ret)
  /\ UNCHANGED <<connectorVars, factoryVars, windowVars, sequence, clock,
                 reader>>

GetStatistics ==
  /\ \E fault \in StoreFaults :
       last' = HistoryCall("get_statistics", NoRecord, NoPath, <<>>, 0, 0,
                           fault, None, get_statistics(fault))
  /\ UNCHANGED <<connectorVars, factoryVars, historyVars, windowVars>>

\* get_statistics statement by statement.  Its connection is opened with
\* the default isolation level, under which a SELECT opens no transaction:
\* each of the four statements reads the store as it is when it runs.
NoReader ==
  [at |-> 0, total |-> 0, success |-> 0, avg_time |-> Fraction(0, 1)]

\* SELECT AVG(execution_time) ... WHERE success = 1, then "or 0.0"
AvgTime(S) ==
  LET good == Successful(S)
  IN IF good = {} \/ SumTimes(good) = 0 THEN Fraction(0, 1)
     ELSE Fraction(SumTimes(good), Cardinality(good))

\* the dictionary get_statistics returns
Statistics(total, ok, avg_time, unique_dbs) ==
  [total |-> total, success |-> ok, failed |-> total - ok,
   avg_execution_time |-> avg_time, unique_databases |-> unique_dbs]

\* except sqlite3.Error: return {}
StatisticsFailed(fault) ==
  /\ reader' = NoReader
  /\ last' = HistoryCall("get_statistics", NoRecord, NoPath, <<>>, 0, 0,
                         fault, None, <<>>)

\* sqlite3.connect and SELECT COUNT(*) FROM query_history
StatisticsTotal ==
  /\ reader.at = 0
  /\ \E fault \in StoreFaults :
       IF fault # None THEN StatisticsFailed(fault)
       ELSE /\ reader' = [reader EXCEPT !.at = 1,
                                        !.total = Cardinality(store)]
            /\ UNCHANGED last
  /\ UNCHANGED <<connectorVars, factoryVars, windowVars, store, sequence,
                 clock>>

\* SELECT COUNT(*) FROM query_history WHERE success = 1
StatisticsSuccess ==
  /\ reader.at = 1
  /\ \E fault \in StoreFaults :
       IF fault # None THEN StatisticsFailed(fault)
       ELSE /\ reader' = [reader EXCEPT
                            !.at = 2,
                            !.success = Cardinality(Successful(store))]
            /\ UNCHANGED last
  /\ UNCHANGED <<connectorVars, factoryVars, windowVars, store, sequence,
                 clock>>

\* SELECT AVG(execution_time) FROM query_history WHERE success = 1
StatisticsAverage ==
  /\ reader.at = 2
  /\ \E fault \in StoreFaults :
       IF fault # None THEN StatisticsFailed(fault)
       ELSE /\ reader' = [reader EXCEPT !.at = 3,
                                        !.avg_time = AvgTime(store)]
            /\ UNCHANGED last
  /\ UNCHANGED <<connectorVars, factoryVars, windowVars, store, sequence,
                 clock>>

\* SELECT COUNT(DISTINCT database_path) FROM query_history, close, return
StatisticsUnique ==
  /\ reader.at = 3
  /\ \E fault \in StoreFaults :
       IF fault # None THEN StatisticsFailed(fault)
       ELSE /\ reader' = NoReader
            /\ last' = HistoryCall(
                         "get_statistics", NoRecord, NoPath, <<>>, 0, 0,
                         fault, None,
                         Statistics(reader.total, reader.success,
                                    reader.avg_time,
                                    Cardinality({r.database_path :
                                                   r \in store})))
  /\ UNCHANGED <<connectorVars, factoryVars, windowVars, store, sequence,
                 clock>>


\* ------------------------------------------------------------- data viewer
\* DataViewer.PAGE_SIZES, scaled down from 50, 100, ... rows to 1 and 2
PAGE_SIZES == <<1, 2>>

NoTable == <<>>
NoRequest == [offset |-> 0, limit |-> 0, order_by |-> None, order_desc |-> FALSE]

\* DataViewer.__init__ and _setup_ui: page 1, the second page size, the
\* page-number input (a QSpinBox) at 1 with maximum 1.  requested is the
\* page _load_data last asked the connector for
NoViewer ==
  [table_name |-> NoTable, current_page |-> 1, page_size |-> PAGE_SIZES[2],
   total_rows |-> 0, order_by |-> None, order_desc |-> FALSE,
   page_input |-> 1, page_maximum |-> 1, requested |-> NoRequest]

Max(a, b) == IF a > b THEN a ELSE b

\* total_pages as the handlers compute it
total_pages(v) ==
  Max(1, (v.total_rows + v.page_size - 1) \div v.page_size)

\* DataViewer._load_data
load_data(v) ==
  IF v.table_name = NoTable THEN v
  ELSE [v EXCEPT !.requested =
          [offset |-> (v.current_page - 1) * v.page_size,
           limit |-> v.page_size,
           order_by |-> v.order_by, order_desc |-> v.order_desc]]

\* QSpinBox signals run their slots inside setMaximum and setValue: a value
\* the new maximum clamps, and a value setValue changes, each call
\* _on_page_changed with the new value before the setter returns.
RECURSIVE update_pagination_controls(_)
RECURSIVE on_page_changed(_, _)

\* DataViewer._update_pagination_controls
update_pagination_controls(v) ==
  LET tp == total_pages(v)
      \* self.page_input.setMaximum(total_pages)
      a == IF v.page_input > tp
           THEN on_page_changed([v EXCEPT !.page_maximum = tp,
                                          !.page_input = tp], tp)
           ELSE [v EXCEPT !.page_maximum = tp]
      \* self.page_input.setValue(self.current_page)
      x == Max(1, Min(a.current_page, a.page_maximum))
  IN IF x # a.page_input
     THEN on_page_changed([a EXCEPT !.page_input = x], x)
     ELSE a

\* DataViewer._on_page_changed
on_page_changed(v, page) ==
  IF page # v.current_page /\ page >= 1 /\ page <= total_pages(v)
  THEN load_data(update_pagination_controls([v EXCEPT !.current_page = page]))
  ELSE v

\* the record kept of a handler of the viewer: its arguments and the viewer
\* before
ViewerCall(op, table, n) ==
  [op |-> op, table |-> table, n |-> n, was |-> viewer]

ViewerFrame == UNCHANGED <<connectorVars, factoryVars, historyVars, window>>

\* tables shown in the viewer
ViewerTables == {TableT, TableOrders}

\* DataViewer.set_table; count is what connector.get_row_count returns
SetTable(table, count) ==
  /\ viewer' = load_data(update_pagination_controls(
                  [viewer EXCEPT !.table_name = table, !.current_page = 1,
                                 !.order_by = None, !.order_desc = FALSE,
                                 !.total_rows = count]))
  /\ last' = ViewerCall("set_table", table, count)
  /\ ViewerFrame

\* DataViewer.clear
cleared(v) ==
  update_pagination_controls(
    [v EXCEPT !.table_name = NoTable, !.current_page = 1, !.total_rows = 0,
              !.order_by = None, !.order_desc = FALSE])

ClearViewer ==
  /\ viewer' = cleared(viewer)
  /\ last' = ViewerCall("clear", NoTable, 0)
  /\ ViewerFrame

\* DataViewer._on_first_page
FirstPage ==
  /\ viewer' = IF viewer.current_page # 1
               THEN load_data(update_pagination_controls(
                      [viewer EXCEPT !.current_page = 1]))
               ELSE viewer
  /\ last' = ViewerCall("first_page", NoTable, 0)
  /\ ViewerFrame

\* DataViewer._on_prev_page
PrevPage ==
  /\ viewer' = IF viewer.current_page > 1
               THEN load_data(update_pagination_controls(
                      [viewer EXCEPT !.current_page = @ - 1]))
               ELSE viewer
  /\ last' = ViewerCall("prev_page", NoTable, 0)
  /\ ViewerFrame

\* DataViewer._on_next_page
NextPage ==
  /\ viewer' = IF viewer.current_page < total_pages(viewer)
               THEN load_data(update_pagination_controls(
                      [viewer EXCEPT !.current_page = @ + 1]))
               ELSE viewer
  /\ last' = ViewerCall("next_page", NoTable, 0)
  /\ ViewerFrame

\* DataViewer._on_last_page
LastPage ==
  /\ viewer' = IF viewer.current_page # total_pages(viewer)
               THEN load_data(update_pagination_controls(
                      [viewer EXCEPT !.current_page = total_pages(viewer)]))
               ELSE viewer
  /\ last' = ViewerCall("last_page", NoTable, 0)
  /\ ViewerFrame

\* the user sets the page-number input to another value within its range
PageInput(page) ==
  /\ page \in 1..viewer.page_maximum
  /\ page # viewer.page_input
  /\ viewer' = on_page_changed([viewer EXCEPT !.page_input = page], page)
  /\ last' = ViewerCall("page_input", NoTable, page)
  /\ ViewerFrame

\* DataViewer._on_page_size_changed, the combo box moved to entry index
PageSizeChanged(index) ==
  /\ PAGE_SIZES[index] # viewer.page_size
  /\ viewer' = load_data(update_pagination_controls(
                  [viewer EXCEPT !.page_size = PAGE_SIZES[index],
                                 !.current_page = 1]))
  /\ last' = ViewerCall("page_size_changed", NoTable, index)
  /\ ViewerFrame

\* DataViewer._on_header_clicked on the header of column number column
HeaderClicked(column) ==
  /\ viewer.table_name # NoTable
  /\ column \in DOMAIN Columns(viewer.table_name)
  /\ LET column_name == Columns(viewer.table_name)[column]
         sorted == IF viewer.order_by = column_name
                   THEN [viewer EXCEPT !.order_desc = ~@]
                   ELSE [viewer EXCEPT !.order_by = column_name,
                                       !.order_desc = FALSE]
     IN viewer' = load_data(update_pagination_controls(
                    [sorted EXCEPT !.current_page = 1]))
  /\ last' = ViewerCall("header_clicked", NoTable, column)
  /\ ViewerFrame

\* ------------------------------------------------------------- main window
\* MainWindow.__init__: no connector, the QueryEditor without one, and the
\* actions close, execute and refresh disabled.  editor says which
\* connector QueryEditor.connector is: None, "current" (the object
\* MainWindow.connector is) or "stale" (an object MainWindow has replaced
\* or dropped, which it disconnected before)
NoWindow ==
  [connector |-> None, editor |-> None, enabled |-> FALSE, export |-> FALSE]

\* the text of a path of the file system
Spelling(p) ==
  CASE p = PathA -> <<"a",".","d","b">>
    [] p = PathJunk -> <<"B",".","S","Q","L","I","T","E">>
    [] p = PathText -> <<"c",".","t","x","t">>
    [] p = PathMissing -> <<"d",".","d","b">>
    [] OTHER -> <<"e",".","s","q","l","i","t","e","3">>

\* SQLiteConnector.connect on a new instance, which holds no handle, the
\* engine having the handles hs open: the exception raised and the
\* instance's fields afterwards
connect(hs, p, out) ==
  IF ~Exists(p) \/ ~SupportedSuffix(p)
  THEN [raised |-> "ConnectionError", connection |-> 0, file_path |-> None,
        handles |-> hs]
  ELSE LET h == NewHandle(hs)
           opened == [i \in DOMAIN hs \cup {h} |->
                        IF i = h THEN [path |-> p, busy_timeout |-> 30000]
                        ELSE hs[i]]
       IN CASE out = "open_error" ->
                 [raised |-> "ConnectionError", connection |-> 0,
                  file_path |-> None, handles |-> hs]
            [] out = "pragma_error" ->
                 [raised |-> "ConnectionError", connection |-> h,
                  file_path |-> None, handles |-> opened]
            [] OTHER ->
                 [raised |-> None, connection |-> h, file_path |-> p,
                  handles |-> opened]

\* the dict QueryEditor.query_executed carries; sent is false when no signal
\* was emitted
Signal(ok, row_count, error) ==
  [sent |-> TRUE, success |-> ok, row_count |-> row_count, error |-> error]
NoSignal == [sent |-> FALSE, success |-> FALSE, row_count |-> 0, error |-> None]

\* the record kept of a handler of the window: the exception that left it
\* (None if it returned), whether a statement was handed to a connector,
\* the signal emitted, and the window and the history store before
WindowCall(op, path, query, raised, executed, emitted) ==
  [op |-> op, path |-> path, query |-> query, raised |-> raised,
   executed |-> executed, emitted |-> emitted, was |-> window,
   before |-> store]

\* QueryEditor.connector once MainWindow replaced or dropped its connector
Stale(e) == IF e = None THEN None ELSE "stale"

\* what can go wrong after connect returned: nothing, get_tables fails in
\* DatabaseTreeWidget.set_database, get_tables fails for the status bar
OpenFaults(p) ==
  IF FileKind(p) # "db" THEN {"tree"} ELSE {"none", "tree", "status"}

\* MainWindow._open_database
OpenDatabase(p) ==
  /\ UNCHANGED <<factoryVars, historyVars, tables, rows, viewer>>
  /\ \E out \in ConnectOutcomes(p), fault \in OpenFaults(p) :
     \E prior \in {IF window.connector # None THEN Disconnected
                   ELSE [connection |-> connection, file_path |-> file_path,
                         handles |-> handles]} :
     \E made \in {create_connector(Spelling(p))} :
       IF made.raised # None
       THEN \* self.connector is still the connector just disconnected
            /\ connection' = prior.connection
            /\ file_path' = prior.file_path
            /\ handles' = prior.handles
            /\ window' = window
            /\ last' = WindowCall("open_database", p, NoQuery, None, FALSE,
                                  NoSignal)
       ELSE \E c \in {connect(prior.handles, p, out)} :
            /\ connection' = c.connection
            /\ file_path' = c.file_path
            /\ handles' = c.handles
            /\ IF c.raised # None
               THEN \* except (ConnectionError, UnsupportedDatabaseError)
                    /\ window' = [window EXCEPT !.connector = made.ret.class,
                                                !.editor = Stale(@)]
                    /\ last' = WindowCall("open_database", p, NoQuery, None,
                                          FALSE, NoSignal)
               ELSE IF fault = "tree"
               THEN \* QueryError leaves the handler before set_connector
                    /\ window' = [window EXCEPT !.connector = made.ret.class,
                                                !.editor = Stale(@)]
                    /\ last' = WindowCall("open_database", p, NoQuery,
                                          "QueryError", FALSE, NoSignal)
               ELSE /\ window' = [window EXCEPT !.connector = made.ret.class,
                                                !.editor = "current",
                                                !.enabled = TRUE]
                    /\ last' = WindowCall("open_database", p, NoQuery,
                                          IF fault = "status" THEN "QueryError"
                                          ELSE None,
                                          FALSE, NoSignal)

\* MainWindow._on_close_database, triggered by action_close
CloseDatabase ==
  /\ window.enabled
  /\ UNCHANGED <<factoryVars, historyVars, tables, rows>>
  /\ viewer' = cleared(viewer)
  /\ \E prior \in {IF window.connector # None THEN Disconnected
                   ELSE [connection |-> connection, file_path |-> file_path,
                         handles |-> handles]} :
       /\ connection' = prior.connection
       /\ file_path' = prior.file_path
       /\ handles' = prior.handles
  /\ window' = [connector |-> None, editor |-> Stale(window.editor),
                enabled |-> FALSE, export |-> FALSE]
  /\ last' = WindowCall("close_database", None, NoQuery, None, FALSE, NoSignal)

\* text typed into the editor
EditorQueries ==
  {Q(<<" ">>, "blank", <<>>, 0, None)}
    \cup {q \in UserQueries :
            q.kind \in {"select", "delete_all", "create", "syntax", "unencodable"}}

\* connector.execute_query on a connector that was disconnected
execute_query_stale ==
  Returned(None, QueryResult(<<>>, <<>>, 0, "Not connected to database"),
           handles, [NoOutcome EXCEPT !.tables = tables, !.rows = rows,
                                       !.exc = "NotConnected"], FALSE)

\* MainWindow._on_query_result: btn_export afterwards
ExportEnabled(signal) == signal.success /\ signal.row_count > 0

\* QueryEditor.execute_query, from its Execute button or from
\* MainWindow._on_execute_query, with MainWindow._on_query_result run by the
\* signal it emits
EditorExecuteQuery(q) ==
  /\ UNCHANGED <<factoryVars, historyVars, connection, file_path, viewer>>
  /\ IF window.editor = None \/ strip(q.text) = <<>>
     THEN \* "No database connected" / "Please enter a query"
          /\ UNCHANGED <<handles, tables, rows, window>>
          /\ last' = WindowCall("execute_query", None, q, None, FALSE, NoSignal)
     ELSE \E locked \in LockChoices(q) :
          \E r \in {IF window.editor = "current"
                    THEN execute_query(q, 30, locked)
                    ELSE execute_query_stale} :
          \E signal \in {IF r.raised # None
                         THEN \* except Exception
                              Signal(FALSE, 0, r.raised)
                         ELSE IF success(r.ret)
                         THEN Signal(TRUE, r.ret.row_count, None)
                         ELSE Signal(FALSE, 0, r.ret.error)} :
            /\ handles' = r.handles
            /\ tables' = r.tables
            /\ rows' = r.rows
            /\ window' = [window EXCEPT !.export = ExportEnabled(signal)]
            /\ last' = WindowCall("execute_query", None, q, None, TRUE, signal)

\* ------------------------------------------------------------ specification
Init ==
  /\ connection = 0
  /\ file_path = None
  /\ handles = <<>>
  /\ tables = {TableT, TableOrders, TableSequence}
  /\ rows = {[id |-> 1, name |-> "a"]}
  /\ last = NoCall
  /\ connectors = InitialConnectors
  /\ store = {}
  /\ sequence = 0
  /\ clock = 1
  /\ window = NoWindow
  /\ viewer = NoViewer
  /\ reader = NoReader

Next ==
  \/ \E p \in Paths : Connect(p)
  \/ Disconnect
  \/ GetTables
  \/ \E t \in TableArgs : GetSchema(t)
  \/ \E a \in TableDataArgs : GetTableData(a[1], a[2], a[3], a[4][1], a[4][2])
  \/ \E c \in QueryCalls : ExecuteQuery(c[1], c[2])
  \/ \E t \in TableArgs : GetRowCount(t)
  \/ GetViews

Spec == Init /\ [][Next]_vars

\* the factory on its own: the registry is class-level state, shared by
\* all callers and independent of any connector
FactoryNext ==
  \/ \E p \in FactoryPaths : CreateConnector(p)
  \/ GetSupportedExtensions
  \/ \E p \in FactoryPaths : IsSupported(p)
  \/ \E e \in ExtensionArgs, c \in ConnectorClasses : RegisterConnector(e, c)
  \/ \E p \in FactoryPaths : GetDatabaseType(p)

FactorySpec == Init /\ [][FactoryNext]_vars

\* the history store on its own, used by one caller
HistoryNext ==
  \/ \E r \in RecordArgs : AddQuery(r)
  \/ \E n \in HistoryLimits, p \in HistoryPathArgs : GetHistory(n, p)
  \/ \E x \in SearchTerms, n \in HistoryLimits : SearchHistory(x, n)
  \/ \E i \in 1..MaxHistory : DeleteRecord(i)
  \/ ClearHistory
  \/ GetStatistics

HistorySpec == Init /\ [][HistoryNext]_vars

\* the main window with its query editor, connector and history store
WindowNext ==
  \/ \E p \in Paths : OpenDatabase(p)
  \/ CloseDatabase
  \/ \E q \in EditorQueries : EditorExecuteQuery(q)

WindowSpec == Init /\ [][WindowNext]_vars

\* the history store shared by two callers without coordination: one
\* writes, the other runs get_statistics one statement at a time
SharedNext ==
  \/ \E r \in RecordArgs : AddQuery(r)
  \/ \E i \in 1..MaxHistory : DeleteRecord(i)
  \/ ClearHistory
  \/ StatisticsTotal
  \/ StatisticsSuccess
  \/ StatisticsAverage
  \/ StatisticsUnique

SharedSpec == Init /\ [][SharedNext]_vars

\* the data viewer on its own, driven by its buttons and inputs and by the
\* tables MainWindow hands it
ViewerNext ==
  \/ \E t \in ViewerTables, n \in 0..MaxTotal : SetTable(t, n)
  \/ ClearViewer
  \/ FirstPage
  \/ PrevPage
  \/ NextPage
  \/ LastPage
  \/ \E k \in 1..MaxTotal : PageInput(k)
  \/ \E i \in DOMAIN PAGE_SIZES : PageSizeChanged(i)
  \/ \E c \in 1..2 : HeaderClicked(c)

ViewerSpec == Init /\ [][ViewerNext]_vars

\* ------------------------------------------------------------------ claims
IsQueryResultCall ==
  last.op \in {"execute_query", "get_table_data"} /\ last.raised = None

\* C1: execute_query never raises; every failure of the statement comes
\* back in QueryResult.error.
C1_NeverRaises ==
  last.op = "execute_query"
    => /\ last.raised = None
       /\ last.failed => last.ret.error # None

\* C2: the connector holds at most one open engine handle, and every open
\* handle it created is its current one, also right after a connect made
\* while connected.
C2_OneHandle ==
  /\ Cardinality(DOMAIN handles) <= 1
  /\ DOMAIN handles = IF connection = 0 THEN {} ELSE {connection}

C2_Witness ==
  /\ last.op = "connect"
  /\ last.wasConnected
  /\ last.raised = None
  /\ connection # 0
  /\ handles[connection].path = PathJunk

\* C3: disconnect never raises and leaves no handle and a null file_path;
\* a disconnect that follows a disconnect changes nothing.
C3_DisconnectIdempotent ==
  [][last'.op = "disconnect"
       => /\ last'.raised = None
          /\ connection' = 0
          /\ file_path' = None
          /\ DOMAIN handles' = {}
          /\ last.op = "disconnect"
               => /\ connection' = connection
                  /\ file_path' = file_path
                  /\ handles' = handles
                  /\ tables' = tables
                  /\ rows' = rows]_vars

C3_Witness ==
  /\ last.op = "disconnect"
  /\ last.wasConnected
  /\ last.closeFailed
  /\ connection = 0

\* C4: a statement whose leading keyword is a read keyword returns the
\* engine's result set and is not committed; every other statement is
\* committed and returns the single column affected_rows holding the number
\* of rows it actually changed.
C4_Classification ==
  (last.op = "execute_query" /\ last.raised = None /\ ~last.failed)
    => IF startswith(upper(lstrip(last.query.text)), SELECT)
       THEN /\ last.ret.columns = last.engine.cols
            /\ last.ret.rows = last.engine.fetched
            /\ ~Occurs("affected_rows", last.ret.columns)
            /\ ~last.committed
       ELSE /\ last.ret.columns = <<"affected_rows">>
            /\ last.ret.rows = << <<last.changed>> >>
            /\ last.committed

\* C5: in every QueryResult of execute_query and get_table_data, error is
\* set exactly when the statement failed and success is true exactly when
\* it did not, whatever row_count is.
C5_ErrorIffFailed ==
  IsQueryResultCall
    => /\ (last.ret.error # None) <=> last.failed
       /\ success(last.ret) <=> ~last.failed

C5_Witness ==
  /\ last.op = "execute_query"
  /\ last.raised = None
  /\ ~last.failed
  /\ last.query.kind = "delete"
  /\ last.ret.row_count = 0
  /\ success(last.ret)

\* C6: get_schema fails with QueryError when not connected and when no
\* table of that name exists; it returns only for an existing table.
C6_SchemaFails ==
  last.op = "get_schema"
    => /\ (~last.wasConnected \/ last.table \notin tables)
            => last.raised = "QueryError"
       /\ last.raised = None => last.table \in tables

IsInternalName(n) == startswith(lower(n), <<"s","q","l","i","t","e","_">>)

\* C8: get_tables returns exactly the user tables in alphabetical order,
\* leaving out only the engine's internal objects, and the empty sequence
\* when not connected.
C8_UserTables ==
  (last.op = "get_tables" /\ last.raised = None)
    => IF last.wasConnected
       THEN last.ret = SortNames({n \in tables : ~IsInternalName(n)})
       ELSE last.ret = <<>>

C10_Original ==
  (last.op = "get_table_data" /\ last.raised = None /\ last.table \in tables
     /\ success(last.ret))
    => /\ Len(last.ret.rows) <= last.limit
       /\ last.offset + Len(last.ret.rows) <= get_row_count(last.table, FALSE).ret

\* C10 as amended: at most limit rows; offset + returned <= row count
\* whenever offset <= row count, and no rows for an offset beyond it.
C10_Amended ==
  (last.op = "get_table_data" /\ last.raised = None)
    => LET n == get_row_count(last.table, FALSE).ret
       IN /\ Len(last.ret.rows) <= last.limit
          /\ last.offset <= n => last.offset + Len(last.ret.rows) <= n
          /\ last.offset > n => Len(last.ret.rows) = 0

C10_Witness ==
  /\ last.op = "get_table_data"
  /\ last.raised = None
  /\ last.offset = 1
  /\ last.limit = 1
  /\ Len(last.ret.rows) = 1
  /\ get_row_count(last.table, FALSE).ret = 2

\* s is sorted by column col, ascending or descending
SortedBy(s, col, desc) ==
  \A i, j \in DOMAIN s :
     i < j => IF desc THEN SortKey(s[i], col) >= SortKey(s[j], col)
                      ELSE SortKey(s[i], col) <= SortKey(s[j], col)

IsColumn(col, tab) == Occurs(col, Columns(tab))

\* C11: get_table_data with order_by naming a column of the table returns
\* exactly the rows at positions offset .. offset+limit-1 of the table
\* sorted by that column, ascending, or descending when order_desc is true.
C11_OrderedPage ==
  (last.op = "get_table_data" /\ last.raised = None /\ ~last.failed
     /\ IsColumn(last.query.order_by, last.table))
    => \E s \in Arrangements(RowsOf(last.table)) :
          /\ SortedBy(s, last.query.order_by, last.query.order_desc)
          /\ last.ret.rows =
               LimitOffset([i \in DOMAIN s |-> <<s[i].id, s[i].name>>],
                           last.limit, last.offset)

C11_Witness ==
  /\ last.op = "get_table_data"
  /\ last.raised = None
  /\ last.query.order_by = "id"
  /\ last.query.order_desc
  /\ last.offset = 1
  /\ last.limit = 1
  /\ Cardinality(rows) = 2
  /\ last.ret.rows = << <<1, "a">> >>

\* C12: on a connected connector, get_table_data with an order_by that
\* names no column of the table returns a QueryResult whose error is set.
C12_BadOrderBy ==
  (last.op = "get_table_data" /\ last.wasConnected
     /\ last.query.order_by # None
     /\ ~IsColumn(last.query.order_by, last.table))
    => /\ last.raised = None
       /\ last.ret.error # None

\* sub occurs in s as a run of consecutive characters
Contains(s, sub) ==
  \E i \in 0..(Len(s) - Len(sub)) : SubSeq(s, i + 1, i + Len(sub)) = sub

\* the extension e is registered, letter case aside
Registered(reg, e) == \E i \in DOMAIN reg : lower(reg[i][1]) = lower(e)

\* C13: create_connector resolves the extension of the path
\* case-insensitively; for a registered extension it returns a new,
\* unconnected instance of the mapped class, otherwise it fails with
\* UnsupportedDatabaseError and the message names the extension and every
\* registered extension, those added by register_connector included.
C13_CreateConnector ==
  last.op = "create_connector"
    => IF Registered(connectors, PathSuffix(last.path))
       THEN /\ last.raised = None
            /\ \E i \in DOMAIN connectors :
                  /\ lower(connectors[i][1]) = lower(PathSuffix(last.path))
                  /\ last.ret.class = connectors[i][2]
            /\ last.ret.connection = 0
            /\ last.ret.file_path = None
       ELSE /\ last.raised = "UnsupportedDatabaseError"
            /\ Contains(lower(last.message), lower(PathSuffix(last.path)))
            /\ \A i \in DOMAIN connectors :
                  Contains(last.message, connectors[i][1])

C13_Witness ==
  /\ last.op = "create_connector"
  /\ last.raised = "UnsupportedDatabaseError"
  /\ last.path = <<"f",".","x","y","z">>
  /\ Len(connectors) = 5
  /\ Contains(last.message, <<".","d","u","c","k","d","b">>)

\* the extension in lowercase with a leading dot
NormalisedExtension(e) ==
  lower(IF e # <<>> /\ Head(e) = "." THEN e ELSE <<".">> \o e)

\* C14: register_connector(extension, C) stores C under the extension in
\* lowercase with a leading dot: afterwards every path with that extension
\* in any letter case is supported and create_connector returns an instance
\* of C; an earlier class of the extension is replaced; the mappings of all
\* other extensions are unchanged.
C14_Register ==
  last.op = "register_connector"
    => LET k == NormalisedExtension(last.extension)
       IN /\ HasKey(connectors, k)
          /\ GetItem(connectors, k) = last.class
          /\ \A p \in FactoryPaths :
                lower(PathSuffix(p)) = k
                  => /\ is_supported(p)
                     /\ create_connector(p).raised = None
                     /\ create_connector(p).ret.class = last.class
          /\ \A i \in DOMAIN connectors :
                connectors[i][1] # k
                  => /\ HasKey(last.before, connectors[i][1])
                     /\ GetItem(last.before, connectors[i][1]) = connectors[i][2]
          /\ \A i \in DOMAIN last.before :
                last.before[i][1] # k
                  => /\ HasKey(connectors, last.before[i][1])
                     /\ GetItem(connectors, last.before[i][1]) = last.before[i][2]

C14_Witness ==
  /\ last.op = "register_connector"
  /\ last.extension = <<"D","u","c","k","D","B">>
  /\ last.class = SQLiteConnector
  /\ HasKey(last.before, <<".","d","u","c","k","d","b">>)
  /\ GetItem(last.before, <<".","d","u","c","k","d","b">>) = DuckConnector
  /\ create_connector(<<"y",".","D","u","c","k","D","b">>).ret.class = SQLiteConnector

\* C15: is_supported, get_supported_extensions, create_connector and
\* get_database_type leave the registry unchanged, register_connector
\* never removes an extension, and is_supported(path) is true exactly when
\* create_connector(path) does not fail with UnsupportedDatabaseError.
C15_RegistryFrame ==
  [][/\ last'.op \in {"is_supported", "get_supported_extensions",
                      "create_connector", "get_database_type"}
          => connectors' = connectors
     /\ \A i \in DOMAIN connectors : HasKey(connectors', connectors[i][1])
     /\ \A p \in FactoryPaths :
           is_supported(p) <=> create_connector(p).raised # "UnsupportedDatabaseError"
     /\ last'.op = "is_supported"
          => (last'.ret <=> create_connector(last'.path).raised = None)]_vars

C15_Witness ==
  /\ last.op = "get_database_type"
  /\ last.raised = None
  /\ last.ret = "Duck"
  /\ last.path = <<"x",".","D","B">>
  /\ connectors = last.before

\* C16: add_query never raises; on success it persists the record, with
\* the current time as timestamp only when the caller supplied none, and
\* returns the generated id; on a failure of the store it returns -1 and
\* persists nothing.
C16_AddQuery ==
  last.op = "add_query"
    => /\ last.raised = None
       /\ last.fault # None => (last.ret = -1 /\ store = last.before)
       /\ last.fault = None
            => /\ last.ret # -1
               /\ \E r \in store :
                     /\ r.id = last.ret
                     /\ r.query_text = last.record.query_text
                     /\ r.timestamp = IF last.record.timestamp = <<>>
                                      THEN isoformat(last.now)
                                      ELSE last.record.timestamp
                     /\ store = last.before \cup {r}

\* s is in most-recent-first order
MostRecentFirst(s) ==
  \A i, j \in DOMAIN s : i < j => ~StrLess(s[i].timestamp, s[j].timestamp)

\* C17: get_history returns at most limit records, most recent first; with
\* a path given, the empty path included, every returned record has exactly
\* that database_path; with no path, records of all paths are eligible.
C17_GetHistory ==
  last.op = "get_history"
    => /\ Len(last.ret) <= last.limit
       /\ MostRecentFirst(last.ret)
       /\ last.path # NoPath
            => \A i \in DOMAIN last.ret : last.ret[i].database_path = last.path
       /\ (last.path = NoPath /\ last.fault = None)
            => Len(last.ret) = Min(last.limit, Cardinality(store))

\* C18: search_history returns only records whose query_text contains the
\* term as a literal substring, letter case aside, for every term, also
\* one that holds % or _; most recent first, at most limit of them.
C18_SearchHistory ==
  last.op = "search_history"
    => /\ Len(last.ret) <= last.limit
       /\ MostRecentFirst(last.ret)
       /\ \A i \in DOMAIN last.ret :
             Contains(lower(last.ret[i].query_text), lower(last.term))

\* C19: delete_record and clear_history return true exactly when the call
\* deleted at least one record; a second delete_record of the same id and
\* clear_history on an empty store return false and change nothing.
C19_Deletions ==
  last.op \in {"delete_record", "clear_history"}
    => /\ last.raised = None
       /\ last.ret <=> (store # last.before)
       /\ store \subseteq last.before
       /\ last.op = "clear_history" /\ last.fault = None => store = {}
       /\ last.op = "delete_record" /\ last.fault = None
            => store = {r \in last.before : r.id # last.id}

\* C20: get_statistics reports total = number of stored records, success =
\* number of them with success true, failed = total - success,
\* unique_databases = number of distinct database_path values, and the
\* average execution time over successful records only, 0 when there are
\* none.
C20_Statistics ==
  (last.op = "get_statistics" /\ last.fault = None)
    => LET good == {r \in store : FromRow(r).success}
           st == last.ret
       IN /\ st.total = Cardinality(store)
          /\ st.success = Cardinality(good)
          /\ st.failed = st.total - st.success
          /\ st.unique_databases = Cardinality({r.database_path : r \in store})
          /\ st.avg_execution_time.den > 0
          /\ st.avg_execution_time.num * Cardinality(good)
               = SumTimes(good) * st.avg_execution_time.den
          /\ good = {} => st.avg_execution_time.num = 0

C20_Witness ==
  /\ last.op = "get_statistics"
  /\ last.fault = None
  /\ last.ret.total = 2
  /\ last.ret.success = 1
  /\ last.ret.failed = 1
  /\ last.ret.unique_databases = 2
  /\ last.ret.avg_execution_time = [num |-> 2, den |-> 1]
  /\ \E r \in store : r.success = 0 /\ r.execution_time = 9

\* the fields of a QueryRecord the caller sets
SameFields(a, b) ==
  /\ a.database_path = b.database_path
  /\ a.query_text = b.query_text
  /\ a.execution_time = b.execution_time
  /\ a.row_count = b.row_count
  /\ a.success = b.success
  /\ a.error_message = b.error_message

C22_RecordedOnce ==
  [][/\ (last'.op = "execute_query" /\ last'.executed)
          => \E r \in store' \ store : store' = store \cup {r}
     /\ \A r \in store : r \in store' \/ \A u \in store' : u.id # r.id]_vars

\* C23: every execute_query on a connected connector leaves the engine's
\* lock wait at the timeout of that call in milliseconds, whether the
\* statement succeeds or fails, and get_table_data leaves it at 30 seconds
\* whatever an earlier execute_query configured.
C23_BusyTimeout ==
  [][/\ (last'.op = "execute_query" /\ connection' # 0)
          => handles'[connection'].busy_timeout = last'.timeout * 1000
     /\ (last'.op = "get_table_data" /\ connection' # 0)
          => handles'[connection'].busy_timeout = 30000
     /\ (last'.op \notin {"execute_query", "get_table_data", "connect",
                          "disconnect"} /\ connection' # 0)
          => handles'[connection'].busy_timeout
               = handles[connection].busy_timeout]_vars

C23_Witness ==
  /\ last.op = "execute_query"
  /\ last.timeout = 5
  /\ last.failed
  /\ last.engine.exc = "OperationalError"
  /\ connection # 0
  /\ handles[connection].busy_timeout = 5000

WithKeyword == <<"W","I","T","H">>

\* C24: a statement that begins with WITH, a WITH ... SELECT as well as a
\* WITH ... INSERT, is handled on the read path: the result set of the
\* engine is returned, nothing is committed, and there is no affected_rows
\* column.
C24_WithIsRead ==
  (last.op = "execute_query" /\ last.raised = None /\ ~last.failed
     /\ startswith(upper(strip(last.query.text)), WithKeyword))
    => /\ last.ret.columns = last.engine.cols
       /\ last.ret.rows = last.engine.fetched
       /\ ~Occurs("affected_rows", last.ret.columns)
       /\ ~last.committed

\* SQLiteConnector.is_connected
is_connected == connection # 0

\* C25: in every state of a connector is_connected is true exactly when
\* file_path is not null; after a connect that failed with ConnectionError
\* once the handle was open, the connector holds no handle.
C25_ConnectedIffPath ==
  /\ is_connected <=> file_path # None
  /\ (last.op = "connect" /\ last.raised = "ConnectionError"
        /\ last.engine.exc # None)
       => connection = 0

\* C26: the ids successful add_query calls return on one store are
\* pairwise distinct and strictly increasing over any sequence of
\* add_query, delete_record and clear_history; an id is not reused after
\* its record was deleted or the history cleared, and it is never -1.
C26_FreshIds ==
  [][/\ (last'.op = "add_query" /\ last'.raised = None /\ last'.fault = None)
          => /\ last'.ret # -1
             /\ last'.ret > sequence
             /\ sequence' = last'.ret
             /\ \A r \in store : r.id < last'.ret
     /\ sequence' >= sequence
     /\ \A r \in store' : r.id <= sequence'
     /\ \A r, u \in store' : r.id = u.id => r = u]_vars

C26_Witness ==
  /\ last.op = "add_query"
  /\ last.raised = None
  /\ last.ret = 2
  /\ last.before = {}
  /\ \A r \in store : r.id = 2

\* C27: every QueryResult has row_count >= 0; for a read statement it is
\* the number of rows returned, for a write statement (INSERT, UPDATE,
\* DELETE, and DDL such as CREATE TABLE) row_count and the affected_rows
\* cell both are the number of rows the statement changed.
C27_RowCount ==
  IsQueryResultCall
    => /\ last.ret.row_count >= 0
       /\ (~last.failed /\ last.query.kind = "select")
            => last.ret.row_count = Len(last.engine.fetched)
       /\ (~last.failed /\ last.wasConnected
             /\ last.query.kind \in {"insert", "update", "delete",
                                      "delete_all", "create"})
            => /\ last.ret.row_count = last.changed
               /\ last.ret.rows = << <<last.changed>> >>

\* C28: after any sequence of opens and closes in MainWindow, failed opens
\* included, whenever MainWindow.connector is not null and the execute,
\* refresh and close actions are enabled, that connector is connected.
C28_EnabledIsConnected ==
  (window.connector # None /\ window.enabled) => is_connected

\* handlers that change what the viewer shows: table, page size, sort
ContextChanges == {"set_table", "page_size_changed", "header_clicked"}

\* C29: when set_table, a page-size change or a header click returns,
\* current_page is 1, also when the page-number input held a value that
\* the new page count clamps.
C29_FirstPage ==
  last.op \in ContextChanges => viewer.current_page = 1

\* C30: when several callers use the same history store without
\* coordination, every get_statistics result describes one single state of
\* the store: with add_query, delete_record or clear_history of other
\* callers interleaved between its count queries it still reports
\* failed >= 0 and success <= total.
C30_OneState ==
  (last.op = "get_statistics" /\ last.fault = None)
    => /\ last.ret.failed >= 0
       /\ last.ret.success <= last.ret.total

====
